---- MODULE Spec2Model ----
(***************************************************************************)
(* Task ROI Manager: the numeric helpers (utils/number.ts) and the task    *)
(* list, undo snackbar, dialogs, persistence and sorted view of App.tsx.   *)
(*                                                                         *)
(* JavaScript numbers are modelled as a small binary-float-like format:    *)
(* a finite number is an integer count of units of 1/Scale, of magnitude   *)
(* at most MaxFinite (the format's Number.MAX_VALUE); an arithmetic result *)
(* is rounded to the nearest unit (ties to even) and overflows to an       *)
(* infinity beyond MaxFinite, as IEEE-754 doubles do. Negative zero is not *)
(* modelled.                                                               *)
(***************************************************************************)
EXTENDS Integers, Sequences, FiniteSets, TLC

\* ------------------------------------------------------------------ bounds

\* units per 1.0 of the number format (so 1/Scale is the smallest step)
Scale == 2
\* largest finite magnitude of the number format, in units
MaxFinite == 40
\* longest string handed to safeNumber
MaxLen == 4
\* longest text typed into a numeric form field
MaxFieldLen == 2

\* ------------------------------------------------------- JavaScript values

Fin(n) == [t |-> "fin", v |-> n, s |-> <<>>]
NaN == [t |-> "nan", v |-> 0, s |-> <<>>]
PosInf == [t |-> "inf", v |-> 0, s |-> <<>>]
NegInf == [t |-> "ninf", v |-> 0, s |-> <<>>]
Null == [t |-> "null", v |-> 0, s |-> <<>>]
Undefined == [t |-> "undefined", v |-> 0, s |-> <<>>]
BoolVal(b) == [t |-> "boolean", v |-> IF b THEN 1 ELSE 0, s |-> <<>>]
ObjVal == [t |-> "object", v |-> 0, s |-> <<>>]
Str(chars) == [t |-> "string", v |-> 0, s |-> chars]

\* typeof v === 'number'
IsNumber(x) == x.t \in {"fin", "nan", "inf", "ninf"}
\* typeof v === 'string'
IsString(x) == x.t = "string"
\* Number.isFinite(v)
IsFinite(x) == x.t = "fin"

Abs(n) == IF n < 0 THEN -n ELSE n

\* num/den (den > 0) rounded to the nearest integer, ties to even
RoundHalfEven(num, den) ==
    LET q == Abs(num) \div den
        r == Abs(num) % den
        m == IF 2 * r > den THEN q + 1
             ELSE IF 2 * r = den THEN q + (q % 2)
             ELSE q
    IN  IF num < 0 THEN -m ELSE m

\* a rounded count of units as a number of the format: overflow gives an infinity
FromUnits(u) ==
    IF u > MaxFinite THEN PosInf
    ELSE IF u < -MaxFinite THEN NegInf
    ELSE Fin(u)

\* the sign of a number: -1, 0 or 1 (NaN has none and is never asked)
SignOf(x) ==
    CASE x.t = "inf" -> 1
      [] x.t = "ninf" -> -1
      [] OTHER -> IF x.v > 0 THEN 1 ELSE IF x.v < 0 THEN -1 ELSE 0

\* x / y of two JavaScript numbers
NumDiv(x, y) ==
    IF x.t = "nan" \/ y.t = "nan" THEN NaN
    ELSE IF ~IsFinite(x) /\ ~IsFinite(y) THEN NaN
    ELSE IF ~IsFinite(x) THEN
        (IF SignOf(x) * (IF SignOf(y) < 0 THEN -1 ELSE 1) > 0 THEN PosInf ELSE NegInf)
    ELSE IF ~IsFinite(y) THEN Fin(0)
    ELSE IF y.v = 0 THEN
        (IF x.v = 0 THEN NaN ELSE IF x.v > 0 THEN PosInf ELSE NegInf)
    ELSE FromUnits(RoundHalfEven(x.v * Scale * (IF y.v < 0 THEN -1 ELSE 1), Abs(y.v)))

\* x - y of two JavaScript numbers
NumSub(x, y) ==
    IF x.t = "nan" \/ y.t = "nan" THEN NaN
    ELSE IF ~IsFinite(x) /\ ~IsFinite(y) THEN (IF x.t = y.t THEN NaN ELSE x)
    ELSE IF ~IsFinite(x) THEN x
    ELSE IF ~IsFinite(y) THEN (IF y.t = "inf" THEN NegInf ELSE PosInf)
    ELSE FromUnits(x.v - y.v)

\* x > 0, x >= 0, x <= 0 of numbers (every comparison with NaN is false)
GtZero(x) == x.t = "inf" \/ (x.t = "fin" /\ x.v > 0)
GeZero(x) == x.t = "inf" \/ (x.t = "fin" /\ x.v >= 0)
LeZero(x) == x.t = "ninf" \/ (x.t = "fin" /\ x.v <= 0)

\* ----------------------------------------------------------------- strings

\* A string is a sequence of one-character strings.
Chars == {" ", "-", "1", "5", ".", "a"}
Digits == {"1", "5"}
DigitVal(c) == IF c = "1" THEN 1 ELSE 5

SeqsUpTo(S, n) == UNION {[1..k -> S] : k \in 0..n}

RECURSIVE TrimStart(_)
TrimStart(s) == IF s # <<>> /\ Head(s) = " " THEN TrimStart(Tail(s)) ELSE s

RECURSIVE TrimEnd(_)
TrimEnd(s) ==
    IF s # <<>> /\ s[Len(s)] = " " THEN TrimEnd(SubSeq(s, 1, Len(s) - 1)) ELSE s

\* String.prototype.trim
Trim(s) == TrimEnd(TrimStart(s))

RECURSIVE DigitsValue(_)
DigitsValue(s) ==
    IF s = <<>> THEN 0
    ELSE 10 * DigitsValue(SubSeq(s, 1, Len(s) - 1)) + DigitVal(s[Len(s)])

RECURSIVE Pow10(_)
Pow10(k) == IF k = 0 THEN 1 ELSE 10 * Pow10(k - 1)

AllDigits(s) == \A i \in 1..Len(s) : s[i] \in Digits

\* Number(s) of a trimmed, non-empty string: an optional minus sign, then
\* digits, digits "." digits(optional) or "." digits; the decimal value is
\* rounded to the format and overflows to an infinity; anything else is NaN.
StringToNumber(s) ==
    LET neg == s # <<>> /\ Head(s) = "-"
        body == IF neg THEN Tail(s) ELSE s
        dots == {i \in 1..Len(body) : body[i] = "."}
        ip == IF dots = {} THEN body
              ELSE SubSeq(body, 1, (CHOOSE i \in dots : TRUE) - 1)
        fp == IF dots = {} THEN <<>>
              ELSE SubSeq(body, (CHOOSE i \in dots : TRUE) + 1, Len(body))
        ok == /\ Cardinality(dots) <= 1
              /\ AllDigits(ip) /\ AllDigits(fp)
              /\ Len(ip) + Len(fp) >= 1
        mag == RoundHalfEven(DigitsValue(ip \o fp) * Scale, Pow10(Len(fp)))
    IN  IF ~ok THEN NaN
        ELSE FromUnits(IF neg THEN -mag ELSE mag)

\* ------------------------------------------------------- utils/number.ts

\* safeNumber without its check of a number argument
safeNumberUnchecked(v) ==
    IF IsNumber(v) THEN v
    ELSE IF IsString(v) THEN
        LET trimmed == Trim(v.s)
            n == StringToNumber(trimmed)
        IN  IF trimmed = <<>> THEN Fin(0)
            ELSE IF IsFinite(n) THEN n ELSE Fin(0)
    ELSE Fin(0)

safeNumber(v) ==
    IF IsNumber(v) THEN (IF IsFinite(v) THEN v ELSE Fin(0))
    ELSE IF IsString(v) THEN
        LET trimmed == Trim(v.s)
            n == StringToNumber(trimmed)
        IN  IF trimmed = <<>> THEN Fin(0)
            ELSE IF IsFinite(n) THEN n ELSE Fin(0)
    ELSE Fin(0)

calculateRoi(revenue, time) ==
    LET rev == safeNumber(revenue)
        t == safeNumber(time)
    IN  IF ~IsFinite(rev) \/ ~IsFinite(t) \/ LeZero(t) THEN Fin(0)
        ELSE NumDiv(rev, t)

\* two decimal digits of a count of hundredths
TwoDigits(c) == IF c < 10 THEN "0" \o ToString(c) ELSE ToString(c)

\* Number.prototype.toLocaleString with exactly two fraction digits (en-US;
\* half-expand rounding). "NaN" and the infinity sign (written "oo" here,
\* U+221E in the browser) are what it prints for the non-finite numbers.
ToLocaleString2(x) ==
    CASE x.t = "nan" -> "NaN"
      [] x.t = "inf" -> "oo"
      [] x.t = "ninf" -> "-oo"
      [] OTHER ->
          LET a == Abs(x.v) * 100
              cents == (a \div Scale) + (IF 2 * (a % Scale) >= Scale THEN 1 ELSE 0)
          IN  (IF x.v < 0 THEN "-" ELSE "")
                  \o ToString(cents \div 100) \o "." \o TwoDigits(cents % 100)

\* formatNumber without its fallback for a non-finite number
formatNumberRaw(n) == ToLocaleString2(n)

formatNumber(n) == ToLocaleString2(IF IsFinite(n) THEN n ELSE Fin(0))

\* the dash shown for a missing ROI (U+2014 in the browser)
EmDash == "--"

\* ------------------------------------------------------------ ROI readouts

\* the ROI cell of a table row
RowRoi(t) ==
    IF GtZero(t.time) /\ GeZero(t.revenue)
    THEN formatNumber(calculateRoi(t.revenue, t.time))
    ELSE EmDash

\* the ROI row of the view dialog
ViewRoi(t) ==
    IF GtZero(t.time) THEN formatNumber(calculateRoi(t.revenue, t.time)) ELSE EmDash

\* the live ROI output of the task form, from the text of its two fields
FormRoi(revenue, time) ==
    LET revNum == safeNumber(Str(revenue))
        timeNum == safeNumber(Str(time))
        roi == calculateRoi(revNum, timeNum)
    IN  IF GtZero(timeNum) /\ GeZero(revNum) THEN formatNumber(roi) ELSE EmDash

\* what the form hands to onSubmit, and onSubmitTask makes of it
SubmittedNumbers(revenue, time) ==
    LET revNum == safeNumber(Str(revenue))
        timeNum == safeNumber(Str(time))
        rev == safeNumber(revNum)
        tm == safeNumber(timeNum)
    IN  [revenue |-> rev, time |-> tm, roi |-> calculateRoi(rev, tm)]

\* ------------------------------------------------------------------ titles

UpperLetters ==
    <<"A", "B", "C", "D", "E", "F", "G", "H", "I", "J", "K", "L", "M",
      "N", "O", "P", "Q", "R", "S", "T", "U", "V", "W", "X", "Y", "Z">>
LowerLetters ==
    <<"a", "b", "c", "d", "e", "f", "g", "h", "i", "j", "k", "l", "m",
      "n", "o", "p", "q", "r", "s", "t", "u", "v", "w", "x", "y", "z">>
\* the collation order of the characters of a lower-cased title
CollationOrder ==
    <<" ", "-", ".", "0", "1", "2", "3", "4", "5", "6", "7", "8", "9">>
        \o LowerLetters

ToLowerChar(c) ==
    IF \E i \in 1..Len(UpperLetters) : UpperLetters[i] = c
    THEN LowerLetters[CHOOSE i \in 1..Len(UpperLetters) : UpperLetters[i] = c]
    ELSE c

\* String.prototype.toLowerCase
toLowerCase(s) == [i \in 1..Len(s) |-> ToLowerChar(s[i])]

Rank(c) == CHOOSE i \in 1..Len(CollationOrder) : CollationOrder[i] = c

\* two strings of lower-case characters compared character by character
RECURSIVE CompareRanks(_, _)
CompareRanks(a, b) ==
    IF a = <<>> /\ b = <<>> THEN 0
    ELSE IF a = <<>> THEN -1
    ELSE IF b = <<>> THEN 1
    ELSE IF Rank(Head(a)) < Rank(Head(b)) THEN -1
    ELSE IF Rank(Head(a)) > Rank(Head(b)) THEN 1
    ELSE CompareRanks(Tail(a), Tail(b))

\* two strings that differ in case only: at the first difference the
\* lower-case letter goes first
RECURSIVE CompareCase(_, _)
CompareCase(a, b) ==
    IF a = <<>> \/ b = <<>> THEN 0
    ELSE IF Head(a) = Head(b) THEN CompareCase(Tail(a), Tail(b))
    ELSE IF ToLowerChar(Head(a)) = Head(a) THEN -1
    ELSE 1

\* a.localeCompare(b): negative, zero or positive; the letters decide, and
\* their case only between strings with the same letters
localeCompare(a, b) ==
    LET byLetters == CompareRanks(toLowerCase(a), toLowerCase(b))
    IN  IF byLetters # 0 THEN byLetters ELSE CompareCase(a, b)

\* String.prototype.includes
Includes(s, sub) ==
    \E i \in 0..(Len(s) - Len(sub)) : SubSeq(s, i + 1, i + Len(sub)) = sub

\* -------------------------------------------------------------- sorted view

\* x || 0
OrZero(x) ==
    IF \/ x.t \in {"nan", "null", "undefined"}
       \/ (x.t = "fin" /\ x.v = 0)
       \/ (x.t = "string" /\ x.s = <<>>)
       \/ (x.t = "boolean" /\ x.v = 0)
    THEN Fin(0)
    ELSE x

\* Number(x)
ToNumber(x) ==
    CASE IsNumber(x) -> x
      [] x.t = "null" -> Fin(0)
      [] x.t = "boolean" -> FromUnits(x.v * Scale)
      [] x.t = "string" ->
          (IF Trim(x.s) = <<>> THEN Fin(0) ELSE StringToNumber(Trim(x.s)))
      [] OTHER -> NaN

\* a !== b of two numbers
StrictNotEqual(a, b) == a.t = "nan" \/ b.t = "nan" \/ a # b

\* the sign of a comparator's result, as Array.prototype.sort reads it (NaN as 0)
SortSign(x) == IF x.t = "nan" THEN 0 ELSE SignOf(x)

\* priRank
priRank(p) == CASE p = "High" -> 3 [] p = "Medium" -> 2 [] p = "Low" -> 1

\* the comparator with the titles compared as they are written
compareTasksCaseSensitive(a, b) ==
    LET ar == ToNumber(OrZero(a.roi))
        br == ToNumber(OrZero(b.roi))
        ap == priRank(a.priority)
        bp == priRank(b.priority)
    IN  IF StrictNotEqual(ar, br) THEN SortSign(NumSub(br, ar))
        ELSE IF ap # bp THEN bp - ap
        ELSE IF a.title # b.title THEN localeCompare(a.title, b.title)
        ELSE b.createdAt - a.createdAt

\* the comparator of sortedFiltered: negative when a goes first
compareTasks(a, b) ==
    LET ar == ToNumber(OrZero(a.roi))
        br == ToNumber(OrZero(b.roi))
        ap == priRank(a.priority)
        bp == priRank(b.priority)
        at == toLowerCase(a.title)
        bt == toLowerCase(b.title)
    IN  IF StrictNotEqual(ar, br) THEN SortSign(NumSub(br, ar))
        ELSE IF ap # bp THEN bp - ap
        ELSE IF at # bt THEN localeCompare(at, bt)
        ELSE b.createdAt - a.createdAt

\* x put into the sorted sequence s behind every element that is not after it
RECURSIVE InsertSorted(_, _)
InsertSorted(s, x) ==
    IF s = <<>> THEN <<x>>
    ELSE IF compareTasks(s[Len(s)], x) > 0
         THEN Append(InsertSorted(SubSeq(s, 1, Len(s) - 1), x), s[Len(s)])
         ELSE Append(s, x)

\* Array.prototype.sort with the comparator: a stable sort
RECURSIVE SortTasks(_)
SortTasks(s) ==
    IF s = <<>> THEN <<>>
    ELSE InsertSorted(SortTasks(SubSeq(s, 1, Len(s) - 1)), s[Len(s)])

\* the predicate of the filter
MatchesFilter(t, pf, sf, q) ==
    /\ (pf = "All" \/ t.priority = pf)
    /\ (sf = "All" \/ t.status = sf)
    /\ Includes(toLowerCase(t.title), toLowerCase(q))

\* sortedFiltered
sortedFiltered(list, pf, sf, q) ==
    SortTasks(SelectSeq(list, LAMBDA t : MatchesFilter(t, pf, sf, q)))

\* -------------------------------------------------------------- app bounds

\* most tasks held in the list
MaxTasks == 2
\* last millisecond of the clock
MaxNow == 1
\* most rows of an imported CSV file
MaxRows == 2
\* most tasks of a list whose sorted view is examined
MaxViewTasks == 3

\* ------------------------------------------------------------------- state

VARIABLES
    tasks,           \* useTasks: the task list, newest first
    lastDeleted,     \* useTasks: <<>> (null) or <<the task deleted last>>
    snackbarOpen,    \* useTasks: whether the undo snackbar shows
    dialog,          \* App: [type, task], task <<>> when the dialog has none
    search,          \* App: the text of the search box
    priorityFilter,  \* App: "All" or a priority
    statusFilter,    \* App: "All" or a status
    storage,         \* localStorage['taskapp.tasks.v1']
    mounted,         \* whether the page has loaded
    now,             \* Date.now()
    stamped,         \* whether tasks were made in this millisecond
    undoHist,        \* history: the delete an undo would revert, with the
                     \* set of tasks before it
    call,            \* a call of a numeric helper: [fn, a, b]
    ret,             \* what the call returned
    returned         \* whether the call has returned

appVars ==
    <<tasks, lastDeleted, snackbarOpen, dialog, storage, mounted, now, stamped, undoHist>>
filterVars == <<search, priorityFilter, statusFilter>>
numVars == <<call, ret, returned>>
vars == <<appVars, filterVars, numVars>>

Priorities == {"High", "Medium", "Low"}
Statuses == {"Todo", "In Progress", "Done"}

NoDialog == [type |-> "none", task |-> <<>>]
NoHist == [stage |-> "none", clean |-> TRUE, base |-> {}, task |-> <<>>]
NoCall == [fn |-> "none", a |-> Undefined, b |-> Undefined]
NoRet ==
    [val |-> Undefined, revenue |-> Undefined, time |-> Undefined,
     roi |-> Undefined, form |-> "", row |-> "", view |-> ""]

TaskSet(list) == {list[i] : i \in 1..Len(list)}
IdsOf(list) == {list[i].id : i \in 1..Len(list)}

\* ------------------------------------------------------------ localStorage

\* JSON.stringify of a number: a non-finite number is written as null
JsonNumber(x) == IF IsNumber(x) /\ ~IsFinite(x) THEN Null ELSE x

\* JSON.stringify(tasks), as the document JSON.parse reads back
Stringify(list) ==
    [kind |-> "array",
     doc |-> [i \in 1..Len(list) |->
                 [list[i] EXCEPT !.revenue = JsonNumber(@),
                                 !.time = JsonNumber(@),
                                 !.roi = JsonNumber(@)]]]

AbsentItem == [kind |-> "absent", doc |-> <<>>]
EmptyItem == [kind |-> "empty", doc |-> <<>>]
GarbageItem == [kind |-> "garbage", doc |-> <<>>]
ObjectItem == [kind |-> "object", doc |-> <<>>]

\* the initial state of useTasks: the stored list, or [] when the item is
\* absent or empty, does not parse, or is no array
LoadTasks(raw) ==
    IF raw.kind \in {"absent", "empty"} THEN <<>>
    ELSE IF raw.kind = "garbage" THEN <<>>
    ELSE IF raw.kind = "array" THEN raw.doc
    ELSE <<>>

\* ----------------------------------------------------------------- useTasks

\* the id of a new task: the time and a random suffix, taken to be fresh
\* (the least suffix no id of `used` has)
FreshId(n, used) == <<n, CHOOSE r \in 0..Cardinality(used) : <<n, r>> \notin used>>

UsedIds ==
    IdsOf(tasks) \cup IdsOf(lastDeleted) \cup IdsOf(dialog.task)
        \cup {t.id : t \in undoHist.base}

addTask(prev, t, id, time) ==
    <<[t EXCEPT !.id = id, !.createdAt = time]>> \o prev

updateTask(prev, id, patch) ==
    [i \in 1..Len(prev) |-> IF prev[i].id = id THEN patch ELSE prev[i]]

\* deleteTask remembering the head of the list instead of the task it removes
deleteTaskHead(prev, id, ld, open) ==
    LET found == SelectSeq(prev, LAMBDA x : x.id = id)
    IN  [tasks |-> SelectSeq(prev, LAMBDA x : x.id # id),
         lastDeleted |-> IF found # <<>> THEN <<prev[1]>> ELSE ld,
         snackbarOpen |-> IF found # <<>> THEN TRUE ELSE open]

\* deleteTask: the new list, lastDeleted and snackbarOpen
deleteTask(prev, id, ld, open) ==
    LET found == SelectSeq(prev, LAMBDA x : x.id = id)
    IN  [tasks |-> SelectSeq(prev, LAMBDA x : x.id # id),
         lastDeleted |-> IF found # <<>> THEN <<found[1]>> ELSE ld,
         snackbarOpen |-> IF found # <<>> THEN TRUE ELSE open]

\* undoDelete: the new list, lastDeleted and snackbarOpen
undoDelete(prev, ld, open) ==
    IF ld = <<>> THEN [tasks |-> prev, lastDeleted |-> ld, snackbarOpen |-> open]
    ELSE [tasks |-> ld \o prev, lastDeleted |-> <<>>, snackbarOpen |-> FALSE]

\* onSnackbarClose closing the snackbar and keeping lastDeleted
onSnackbarCloseLeak(ld, open) == [lastDeleted |-> ld, snackbarOpen |-> FALSE]

\* onSnackbarClose: the new lastDeleted and snackbarOpen
onSnackbarClose(ld, open) == [lastDeleted |-> <<>>, snackbarOpen |-> FALSE]

\* the task importCsv makes of row idx (from 0) of a file read at time n
ImportedTask(r, idx, n, id) ==
    LET revenue == safeNumber(Str(r.revenue))
        time == safeNumber(Str(r.time))
    IN  [id |-> id,
         createdAt |-> n + idx,
         title |-> IF Trim(r.title) # <<>> THEN Trim(r.title)
                   ELSE <<"T", "a", "s", "k", " ", ToString(idx + 1)>>,
         revenue |-> revenue,
         time |-> time,
         roi |-> calculateRoi(revenue, time),
         notes |-> Trim(r.notes),
         priority |-> IF r.priority # "" THEN r.priority ELSE "Medium",
         status |-> IF r.status # "" THEN r.status ELSE "Todo"]

RECURSIVE ImportedTasks(_, _, _)
ImportedTasks(rows, n, used) ==
    IF rows = <<>> THEN <<>>
    ELSE LET k == Len(rows)
             before == ImportedTasks(SubSeq(rows, 1, k - 1), n, used)
             id == FreshId(n + k - 1, used \cup IdsOf(before))
         IN  Append(before, ImportedTask(rows[k], k - 1, n, id))

importCsv(prev, rows, n, used) == ImportedTasks(rows, n, used) \o prev

\* the fields onSubmitTask makes of the form's data
SubmittedFields(data) ==
    LET nums == SubmittedNumbers(data.revenue, data.time)
    IN  [title |-> IF Trim(data.title) # <<>> THEN Trim(data.title)
                   ELSE <<"U", "n", "t", "i", "t", "l", "e", "d">>,
         revenue |-> nums.revenue,
         time |-> nums.time,
         roi |-> nums.roi,
         notes |-> data.notes,
         priority |-> data.priority,
         status |-> data.status]

\* the persist effect: what a change of the list leaves in localStorage
persist(list) == Stringify(list)

\* ------------------------------------------------------------------ dialogs

openView(t) == [type |-> "view", task |-> <<t>>]
openEdit(t) == [type |-> "edit", task |-> <<t>>]
openDelete(t) == [type |-> "delete", task |-> <<t>>]

\* the Edit button's handler without stopPropagation
editOnClickBubbling(t) == [dialog |-> openEdit(t), stopped |-> FALSE]

\* the click handlers of a row and of its two buttons: the dialog each sets
\* and whether it stops the event from bubbling further
rowOnClick(t) == [dialog |-> openView(t), stopped |-> FALSE]
editOnClick(t) == [dialog |-> openEdit(t), stopped |-> TRUE]
deleteOnClick(t) == [dialog |-> openDelete(t), stopped |-> TRUE]

\* a click on `target` ("row", "edit" or "delete") of the row of t: the
\* handlers run from the target outwards until one stops the event, and the
\* last setDialog of the event is the one that counts
ClickDialog(target, t) ==
    LET first == CASE target = "edit" -> editOnClick(t)
                   [] target = "delete" -> deleteOnClick(t)
                   [] OTHER -> rowOnClick(t)
    IN  IF target = "row" \/ first.stopped THEN first.dialog
        ELSE rowOnClick(t).dialog

\* the modals the render shows for a dialog state
OpenModals(d) ==
    {m \in {"view", "edit", "delete"} : d.type = m}

\* ------------------------------------------------------------------ inputs

NumberTexts ==
    {[revenue |-> <<"1">>, time |-> <<"1">>],
     [revenue |-> <<"1", "5">>, time |-> <<".", "5">>]}

\* what a user submits in the task form
FormInputs ==
    {[title |-> ti, revenue |-> n.revenue, time |-> n.time, notes |-> <<>>,
      priority |-> "Medium", status |-> "Todo"] :
        ti \in {<<"a">>}, n \in NumberTexts}

\* the rows parseCsv hands to importCsv
CsvRows ==
    {[title |-> <<"a">>, revenue |-> <<"1">>, time |-> <<"1">>, notes |-> <<>>,
      priority |-> "", status |-> ""]}

\* the tasks an undo may still bring back
Pending == Len(lastDeleted)

\* how a step that leaves the list alone leaves the history: what it says of
\* the step before is dropped
Settled(h) == IF h.stage = "deleted" THEN h ELSE NoHist

\* how a change of the list other than a delete or an undo leaves the history
Touched(h) ==
    IF h.stage = "deleted" THEN [h EXCEPT !.clean = FALSE] ELSE NoHist

\* ----------------------------------------------------------------- actions

Init ==
    /\ tasks = <<>>
    /\ lastDeleted = <<>>
    /\ snackbarOpen = FALSE
    /\ dialog = NoDialog
    /\ search = <<>>
    /\ priorityFilter = "All"
    /\ statusFilter = "All"
    /\ storage \in {AbsentItem, EmptyItem, GarbageItem, ObjectItem, Stringify(<<>>)}
    /\ mounted = FALSE
    /\ now = 0
    /\ stamped = FALSE
    /\ undoHist = NoHist
    /\ call = NoCall
    /\ ret = NoRet
    /\ returned = FALSE

\* the page loads (or reloads): every state starts afresh, the list from
\* localStorage, and the persist effect writes it back
PageLoad ==
    /\ tasks' = LoadTasks(storage)
    /\ storage' = persist(tasks')
    /\ mounted' = TRUE
    /\ lastDeleted' = <<>>
    /\ snackbarOpen' = FALSE
    /\ dialog' = NoDialog
    /\ undoHist' = NoHist
    /\ UNCHANGED <<now, stamped, filterVars, numVars>>

Tick ==
    /\ now < MaxNow
    /\ now' = now + 1
    /\ undoHist' = Settled(undoHist)
    /\ stamped' = FALSE
    /\ UNCHANGED <<tasks, lastDeleted, snackbarOpen, dialog, storage, mounted,
                   filterVars, numVars>>

OpenAdd ==
    /\ mounted
    /\ dialog' = [type |-> "edit", task |-> <<>>]
    /\ undoHist' = Settled(undoHist)
    /\ UNCHANGED <<tasks, lastDeleted, snackbarOpen, storage, mounted, now, stamped,
                   filterVars, numVars>>

\* a click on a row of the table, or on one of its two buttons
Click(target, t) ==
    /\ mounted
    /\ dialog' = ClickDialog(target, t)
    /\ undoHist' = Settled(undoHist)
    /\ UNCHANGED <<tasks, lastDeleted, snackbarOpen, storage, mounted, now, stamped,
                   filterVars, numVars>>

CloseDialog ==
    /\ mounted
    /\ dialog.type # "none"
    /\ dialog' = NoDialog
    /\ undoHist' = Settled(undoHist)
    /\ UNCHANGED <<tasks, lastDeleted, snackbarOpen, storage, mounted, now, stamped,
                   filterVars, numVars>>

\* onSubmitTask: the form of the edit dialog is submitted
SubmitTask(data) ==
    /\ mounted
    /\ dialog.type = "edit"
    /\ IF dialog.task # <<>>
       THEN tasks' = updateTask(tasks, dialog.task[1].id,
                         [k \in DOMAIN dialog.task[1] |->
                             IF k \in DOMAIN SubmittedFields(data)
                             THEN SubmittedFields(data)[k]
                             ELSE dialog.task[1][k]])
       ELSE /\ Len(tasks) + Pending < MaxTasks
            /\ ~stamped
            /\ tasks' = addTask(tasks,
                          [k \in {"id", "createdAt"} \cup DOMAIN SubmittedFields(data) |->
                              IF k \in DOMAIN SubmittedFields(data)
                              THEN SubmittedFields(data)[k] ELSE 0],
                          FreshId(now, UsedIds), now)
    /\ dialog' = NoDialog
    /\ storage' = persist(tasks')
    /\ stamped' = (stamped \/ dialog.task = <<>>)
    /\ undoHist' = Touched(undoHist)
    /\ UNCHANGED <<lastDeleted, snackbarOpen, mounted, now, filterVars, numVars>>

\* onConfirmDelete: the delete dialog is confirmed
ConfirmDelete ==
    /\ mounted
    /\ dialog.type = "delete"
    /\ dialog.task # <<>>
    /\ LET r == deleteTask(tasks, dialog.task[1].id, lastDeleted, snackbarOpen)
       IN  /\ tasks' = r.tasks
           /\ lastDeleted' = r.lastDeleted
           /\ snackbarOpen' = r.snackbarOpen
           /\ undoHist' = IF r.tasks # tasks
                          THEN [stage |-> "deleted", clean |-> TRUE,
                                base |-> TaskSet(tasks), task |-> dialog.task]
                          ELSE undoHist
    /\ dialog' = NoDialog
    /\ storage' = persist(tasks')
    /\ UNCHANGED <<mounted, now, stamped, filterVars, numVars>>

\* the Undo button of the snackbar (the handler runs whenever it is called)
UndoDelete ==
    /\ mounted
    /\ LET r == undoDelete(tasks, lastDeleted, snackbarOpen)
       IN  /\ tasks' = r.tasks
           /\ lastDeleted' = r.lastDeleted
           /\ snackbarOpen' = r.snackbarOpen
           /\ storage' = IF r.tasks # tasks THEN persist(r.tasks) ELSE storage
           /\ undoHist' = IF r.tasks # tasks
                          THEN [undoHist EXCEPT !.stage = "restored"]
                          ELSE Settled(undoHist)
    /\ UNCHANGED <<dialog, mounted, now, stamped, filterVars, numVars>>

\* the snackbar closes: its timer runs out or its close button is clicked
SnackbarClose ==
    /\ mounted
    /\ snackbarOpen
    /\ LET r == onSnackbarClose(lastDeleted, snackbarOpen)
       IN  /\ lastDeleted' = r.lastDeleted
           /\ snackbarOpen' = r.snackbarOpen
    /\ undoHist' = [NoHist EXCEPT !.stage = "closed"]
    /\ UNCHANGED <<tasks, dialog, storage, mounted, now, stamped,
                   filterVars, numVars>>

\* a CSV file has been read
ImportCsv(rows) ==
    /\ mounted
    /\ Len(tasks) + Pending + Len(rows) <= MaxTasks
    /\ ~stamped
    /\ tasks' = importCsv(tasks, rows, now, UsedIds)
    /\ storage' = persist(tasks')
    /\ stamped' = (stamped \/ rows # <<>>)
    /\ undoHist' = Touched(undoHist)
    /\ UNCHANGED <<lastDeleted, snackbarOpen, dialog, mounted, now, filterVars, numVars>>

Next ==
    \/ PageLoad
    \/ Tick
    \/ OpenAdd
    \/ \E target \in {"row", "edit", "delete"} :
         \E t \in TaskSet(sortedFiltered(tasks, priorityFilter, statusFilter, search)) :
            Click(target, t)
    \/ CloseDialog
    \/ \E data \in FormInputs : SubmitTask(data)
    \/ ConfirmDelete
    \/ UndoDelete
    \/ SnackbarClose
    \/ \E rows \in SeqsUpTo(CsvRows, MaxRows) : ImportCsv(rows)

Spec == Init /\ [][Next]_vars

\* ------------------------------------------------- the view and its filters

SetSearch(q) ==
    /\ search' = q
    /\ UNCHANGED <<appVars, priorityFilter, statusFilter, numVars>>

SetPriorityFilter(p) ==
    /\ priorityFilter' = p
    /\ UNCHANGED <<appVars, search, statusFilter, numVars>>

SetStatusFilter(st) ==
    /\ statusFilter' = st
    /\ UNCHANGED <<appVars, search, priorityFilter, numVars>>

SearchTexts == {<<>>, <<"a">>}

\* the ROI and priority, and the title and creation time, of the tasks the
\* lists are drawn from
ViewRanks ==
    {<<Fin(2 * Scale), "Low">>, <<Fin(Scale), "High">>, <<Fin(Scale), "Medium">>}
ViewNames == {<<<<"a">>, 0>>, <<<<"A">>, 1>>, <<<<"B">>, 1>>}

ViewTask(rank, name) ==
    [id |-> <<name[2], 0>>,
     createdAt |-> name[2],
     title |-> name[1],
     revenue |-> rank[1],
     time |-> Fin(Scale),
     roi |-> calculateRoi(rank[1], Fin(Scale)),
     notes |-> <<>>,
     priority |-> rank[2],
     status |-> IF name[2] = 1 THEN "Done" ELSE "Todo"]

ViewPool == {ViewTask(rank, name) : rank \in ViewRanks, name \in ViewNames}

\* the lists of up to n tasks of the pool, each task with an id of its own
ViewLists(n) ==
    {[i \in 1..Len(l) |-> [l[i] EXCEPT !.id = <<l[i].createdAt, i>>]] :
        l \in SeqsUpTo(ViewPool, n)}

InitView ==
    /\ tasks \in ViewLists(MaxViewTasks)
    /\ lastDeleted = <<>>
    /\ snackbarOpen = FALSE
    /\ dialog = NoDialog
    /\ search = <<>>
    /\ priorityFilter = "All"
    /\ statusFilter = "All"
    /\ storage = persist(tasks)
    /\ mounted = TRUE
    /\ now = MaxNow
    /\ stamped = FALSE
    /\ undoHist = NoHist
    /\ call = NoCall
    /\ ret = NoRet
    /\ returned = FALSE

NextView ==
    \/ \E q \in SearchTexts : SetSearch(q)
    \/ \E p \in {"All"} \cup Priorities : SetPriorityFilter(p)
    \/ \E st \in {"All"} \cup Statuses : SetStatusFilter(st)

SpecView == InitView /\ [][NextView]_vars

\* ------------------------------------------------- the numeric helpers alone

Numbers == {Fin(n) : n \in (-MaxFinite)..MaxFinite} \cup {NaN, PosInf, NegInf}

\* the values safeNumber is called with, the strings of up to n characters
JsValues(n) ==
    Numbers
        \cup {Null, Undefined, BoolVal(TRUE), BoolVal(FALSE), ObjVal}
        \cup {Str(chars) : chars \in SeqsUpTo(Chars, n)}

\* the operands calculateRoi is called with
RoiOperands == Numbers \cup {Null, Undefined, Str(<<"a">>)}

\* the texts of up to n characters typed into a numeric field of the form
FieldTexts(n) == SeqsUpTo(Chars, n)

\* the calls made: safeNumber on strings of up to len characters, calculateRoi,
\* and the task form with texts of up to fieldLen characters
NumCalls(len, fieldLen) ==
    {[fn |-> "safeNumber", a |-> x, b |-> Undefined] : x \in JsValues(len)}
        \cup {[fn |-> "calculateRoi", a |-> x, b |-> y] :
                 x \in RoiOperands, y \in RoiOperands}
        \cup {[fn |-> "TaskForm", a |-> Str(x), b |-> Str(y)] :
                 x \in FieldTexts(fieldLen), y \in FieldTexts(fieldLen)}

InitNum ==
    /\ tasks = <<>>
    /\ lastDeleted = <<>>
    /\ snackbarOpen = FALSE
    /\ dialog = NoDialog
    /\ search = <<>>
    /\ priorityFilter = "All"
    /\ statusFilter = "All"
    /\ storage = AbsentItem
    /\ mounted = FALSE
    /\ now = 0
    /\ stamped = FALSE
    /\ undoHist = NoHist
    /\ call \in NumCalls(MaxLen, MaxFieldLen)
    /\ ret = NoRet
    /\ returned = FALSE

CallSafeNumber ==
    /\ call.fn = "safeNumber" /\ ~returned
    /\ ret' = [NoRet EXCEPT !.val = safeNumber(call.a)]
    /\ returned' = TRUE
    /\ UNCHANGED <<appVars, filterVars, call>>

CallCalculateRoi ==
    /\ call.fn = "calculateRoi" /\ ~returned
    /\ ret' = [NoRet EXCEPT !.val = calculateRoi(call.a, call.b)]
    /\ returned' = TRUE
    /\ UNCHANGED <<appVars, filterVars, call>>

\* the task form with the two texts typed in: its live ROI output, the numbers
\* a submit stores, and the two readouts of the task stored
RenderTaskForm ==
    /\ call.fn = "TaskForm" /\ ~returned
    /\ LET nums == SubmittedNumbers(call.a.s, call.b.s)
       IN  ret' = [val |-> Undefined,
                   revenue |-> nums.revenue,
                   time |-> nums.time,
                   roi |-> nums.roi,
                   form |-> FormRoi(call.a.s, call.b.s),
                   row |-> RowRoi(nums),
                   view |-> ViewRoi(nums)]
    /\ returned' = TRUE
    /\ UNCHANGED <<appVars, filterVars, call>>

NextNum == CallSafeNumber \/ CallCalculateRoi \/ RenderTaskForm

SpecNum == InitNum /\ [][NextNum]_vars

\* ------------------------------------------------------------------ claims

\* the view on screen
View == sortedFiltered(tasks, priorityFilter, statusFilter, search)

\* the ROI a task is ranked by, in units (every ROI of a ranked list is finite)
RoiUnits(t) == ToNumber(OrZero(t.roi)).v
ClaimRank(p) == IF p = "High" THEN 3 ELSE IF p = "Medium" THEN 2 ELSE 1
LowerTitle(t) == toLowerCase(t.title)

\* a may stand right before b in the view
InOrder(a, b) ==
    \/ RoiUnits(a) > RoiUnits(b)
    \/ /\ RoiUnits(a) = RoiUnits(b)
       /\ \/ ClaimRank(a.priority) > ClaimRank(b.priority)
          \/ /\ ClaimRank(a.priority) = ClaimRank(b.priority)
             /\ \/ localeCompare(LowerTitle(a), LowerTitle(b)) < 0
                \/ /\ LowerTitle(a) = LowerTitle(b)
                   /\ a.createdAt >= b.createdAt

\* C1: every adjacent pair of the sorted view is ordered by ROI (higher
\* first), then priority rank (High 3, Medium 2, Low 1; higher first), then
\* lower-cased title (smaller first), then createdAt (more recent first),
\* for every task list and every setting of the filters.
C1_ViewIsOrdered ==
    \A i \in 1..(Len(View) - 1) : InOrder(View[i], View[i + 1])

\* C1 witness: a view, filtered by the search text, whose two tasks are in
\* the other order in the list and differ only in the case of their titles
\* and in their creation times
C1_Witness ==
    /\ search = <<"a">>
    /\ Len(tasks) = 3
    /\ Len(View) = 2
    /\ View # SelectSeq(tasks, LAMBDA t : t \in TaskSet(View))
    /\ RoiUnits(View[1]) = RoiUnits(View[2])
    /\ View[1].priority = View[2].priority
    /\ LowerTitle(View[1]) = LowerTitle(View[2])
    /\ View[1].title # View[2].title
    /\ View[1].createdAt > View[2].createdAt

\* the lists that hold the tasks of `list` in another order
Perms(list) ==
    {[i \in 1..Len(list) |-> list[f[i]]] :
        f \in {g \in [1..Len(list) -> 1..Len(list)] :
                  \A i, j \in 1..Len(list) : g[i] = g[j] => i = j}}

\* C2: for a fixed setting of the filters the sorted view depends only on
\* which tasks the list holds, not on their order in the list: every
\* permutation of the list gives the same view.
C2_ViewIgnoresListOrder ==
    \A p \in Perms(tasks) :
        sortedFiltered(p, priorityFilter, statusFilter, search) = View

\* C3: calculateRoi(revenue, time) is revenue / time when both are finite
\* numbers and time > 0, is 0 when time <= 0 or an operand is non-finite or
\* not a number, and is never NaN or an infinity.
C3_RoiIsQuotientAndFinite ==
    (returned /\ call.fn = "calculateRoi") =>
        /\ (IsFinite(call.a) /\ IsFinite(call.b) /\ call.b.v > 0)
               => ret.val = NumDiv(call.a, call.b)
        /\ (~IsFinite(call.a) \/ ~IsFinite(call.b) \/ call.b.v <= 0)
               => ret.val = Fin(0)
        /\ ret.val \notin {NaN, PosInf, NegInf}

\* C4: safeNumber(v) is v for a finite number, the value of the literal for
\* a string whose trimmed text is a finite numeric literal, and 0 for every
\* other value; its result is always a finite number.
C4_SafeNumber ==
    (returned /\ call.fn = "safeNumber") =>
        /\ IsFinite(ret.val)
        /\ ret.val.v \in (-MaxFinite)..MaxFinite
        /\ IF IsFinite(call.a) THEN ret.val = call.a
           ELSE IF IsString(call.a) /\ IsFinite(StringToNumber(Trim(call.a.s)))
                THEN ret.val = StringToNumber(Trim(call.a.s))
                ELSE ret.val = Fin(0)
        /\ call.a = Str(<<" ", "5">>) => ret.val = Fin(5 * Scale)
        /\ call.a = Str(<<"-", "5", " ">>) => ret.val = Fin(-5 * Scale)
        /\ call.a \in {Str(<<"a">>), Str(<<"1", "a">>), Str(<<" ">>), Str(<<>>),
                       Str(<<"-">>), Str(<<".">>), Str(<<"1", " ", "1">>)}
               => ret.val = Fin(0)

\* C4 witness: a string with blanks around a literal came back as its value
C4_Witness ==
    /\ returned /\ call.fn = "safeNumber"
    /\ IsString(call.a)
    /\ Trim(call.a.s) # call.a.s
    /\ ret.val # Fin(0)

\* the state right after an undo that reverted a delete
Restored == undoHist.stage = "restored"

\* C5 as first stated: an undo invoked after a delete, before the snackbar
\* closes and before any other delete, puts the deleted task back, leaves
\* lastDeleted null and the snackbar closed, and makes the set of tasks
\* the set just before the delete.
C5_UndoRestoresSet ==
    Restored =>
        /\ undoHist.task[1] \in TaskSet(tasks)
        /\ lastDeleted = <<>> /\ ~snackbarOpen
        /\ TaskSet(tasks) = undoHist.base

\* C5, amended: an undo invoked after a delete, before the snackbar closes
\* and before any other delete, puts the deleted task back unchanged, leaves
\* every task of the list as it was, and leaves lastDeleted null and the
\* snackbar closed; when no task was added, edited or imported in between,
\* the set of tasks is the set just before the delete.
C5_UndoRestoresTask ==
    Restored =>
        /\ undoHist.task[1] \in undoHist.base
        /\ Head(tasks) = undoHist.task[1]
        /\ Len(SelectSeq(tasks, LAMBDA t : t.id = undoHist.task[1].id)) = 1
        /\ lastDeleted = <<>> /\ ~snackbarOpen
        /\ storage = Stringify(tasks)
        /\ undoHist.clean =>
               /\ TaskSet(tasks) = undoHist.base
               /\ Len(tasks) = Cardinality(undoHist.base)

\* C5 witness: an undo brought a task back beside another one
C5_Witness ==
    /\ Restored /\ undoHist.clean
    /\ Len(tasks) = 2
    /\ Cardinality(undoHist.base) = 2
    /\ tasks[2] # undoHist.task[1]

\* C6: a close of the snackbar clears lastDeleted and the open flag, an
\* undoDelete invoked while the snackbar is closed leaves the task list
\* unchanged, and lastDeleted is null whenever the snackbar is closed.
C6_NoPhantomRestore ==
    /\ [](~snackbarOpen => lastDeleted = <<>>)
    /\ [][SnackbarClose => (lastDeleted' = <<>> /\ ~snackbarOpen')]_vars
    /\ [][(~snackbarOpen /\ UndoDelete) => tasks' = tasks]_vars

\* C6 witness: the snackbar has closed on a delete, whose task stays deleted
C6_Witness ==
    /\ undoHist.stage = "closed"
    /\ ~snackbarOpen /\ lastDeleted = <<>>
    /\ Len(tasks) = 1

\* C7: once the persist effect has run the stored item is the serialisation
\* of the task list, so that a reload starts from exactly the tasks present;
\* an absent, unparsable or non-array item loads as the empty list.
C7_ReloadRestoresTasks ==
    /\ mounted => (storage = Stringify(tasks) /\ LoadTasks(storage) = tasks)
    /\ \A raw \in {AbsentItem, EmptyItem, GarbageItem, ObjectItem} : LoadTasks(raw) = <<>>

\* the dialog a click on `target` of the row of t is to open
ClaimDialog(target, t) ==
    [type |-> IF target = "row" THEN "view" ELSE target, task |-> <<t>>]

\* C8: a click on a row opens the view dialog of its task, a click on its
\* Edit button the edit dialog and a click on its Delete button the delete
\* dialog, none of them replaced by the view dialog; at most one dialog is
\* open in any state.
C8_OneDialogPerClick ==
    /\ [](Cardinality(OpenModals(dialog)) <= 1)
    /\ [][\A target \in {"row", "edit", "delete"} : \A t \in TaskSet(tasks) :
             Click(target, t) => dialog' = ClaimDialog(target, t)]_vars

\* C8 witness: the edit dialog of a task of the list is open
C8_Witness ==
    /\ dialog.type = "edit"
    /\ dialog.task # <<>>
    /\ dialog.task[1] \in TaskSet(tasks)
    /\ OpenModals(dialog) = {"edit"}

NonFiniteTexts == {"NaN", "oo", "-oo"}

\* C9: a task whose time is <= 0 or invalid has the ROI 0 and the dash in
\* every ROI readout (table row, view dialog, live output of the form), and
\* no readout shows NaN or an infinity for any task or form input.
C9_SafeRoiReadout ==
    (returned /\ call.fn = "TaskForm") =>
        /\ (~GtZero(safeNumber(call.b)))
               => /\ ret.roi = Fin(0)
                  /\ ret.form = EmDash /\ ret.row = EmDash /\ ret.view = EmDash
        /\ ret.form \notin NonFiniteTexts
        /\ ret.row \notin NonFiniteTexts
        /\ ret.view \notin NonFiniteTexts

\* C9 witness: a form with a revenue and an invalid time shows the dash
C9_Witness ==
    /\ returned /\ call.fn = "TaskForm"
    /\ StringToNumber(Trim(call.b.s)) = NaN
    /\ ret.revenue # Fin(0)
    /\ ret.roi = Fin(0)
    /\ ret.form = EmDash /\ ret.row = EmDash /\ ret.view = EmDash

====
